---- MODULE Spec2Model ----
(***************************************************************************)
(* A model of src-tauri/src/main.rs of trust-lens: the native PDF patch    *)
(* command (native_pdf_patch), its data-URL decoder (data_url_to_bytes)    *)
(* and its text replacement engine (replace_in_text).                      *)
(*                                                                         *)
(* Text is a sequence of one-character strings.  The byte "X" stands for a *)
(* byte that is not valid UTF-8; "R" stands for the encoding of U+FFFD,    *)
(* which String::from_utf8_lossy puts in its place.                        *)
(*                                                                         *)
(* Two specifications share the variables:                                 *)
(*   Spec      one run of native_pdf_patch on a request;                   *)
(*   SpecText  one call of replace_in_text, one loop iteration per step.   *)
(***************************************************************************)
EXTENDS Integers, Sequences, FiniteSets, TLC

VARIABLES
    req,            \* NativePdfPatchRequest: source_data_url, replacements
    source,         \* the document the payload token "PDF" encodes
    pc,             \* position in native_pdf_patch / replace_in_text
    replacements,   \* the filtered list (handler) or the parameter (engine)
    doc,            \* the loaded lopdf Document, mutated in place
    page_no,        \* number of pages the for loop has finished
    replaced_total, \* replaced_total
    response,       \* what the command returned
    raw,            \* replace_in_text: the parameter raw
    text,           \* replace_in_text: the local text
    count,          \* replace_in_text: the local count
    r_ix            \* replace_in_text: number of patches the loop has visited

vars == <<req, source, pc, replacements, doc, page_no, replaced_total,
          response, raw, text, count, r_ix>>

-----------------------------------------------------------------------------
(* Bounds *)

MaxPages == 2
MaxPatches == 2
MaxRawLen == 3

-----------------------------------------------------------------------------
(* Inputs *)

\* the bytes of a string operand handed to replace_in_text
Bytes == {"a", "b", "X"}

\* original_text and new_text of the patches handed to replace_in_text
Originals == {<<>>, <<"a">>, <<"a", "a">>, <<"b">>}
News == {<<>>, <<"b">>, <<"c">>}

-----------------------------------------------------------------------------
(* Sequences and text *)

SeqsUpTo(S, n) == UNION {[1..k -> S] : k \in 0..n}

Range(s) == {s[i] : i \in 1..Len(s)}

RECURSIVE SumSeq(_)
SumSeq(s) == IF s = <<>> THEN 0 ELSE Head(s) + SumSeq(Tail(s))

StartsWith(t, pat) ==
    /\ Len(pat) <= Len(t)
    /\ SubSeq(t, 1, Len(pat)) = pat

Drop(t, n) == SubSeq(t, n + 1, Len(t))

\* str::contains: pat occurs somewhere in t
Contains(t, pat) ==
    \E i \in 0..(Len(t) - Len(pat)) : SubSeq(t, i + 1, i + Len(pat)) = pat

\* str::matches(pat).count() for a non-empty pat: the matches are found left
\* to right and do not overlap
RECURSIVE Matches(_, _)
Matches(t, pat) ==
    IF Len(t) < Len(pat) THEN 0
    ELSE IF StartsWith(t, pat) THEN 1 + Matches(Drop(t, Len(pat)), pat)
    ELSE Matches(Tail(t), pat)

\* str::replace(pat, new) for a non-empty pat: the same matches, replaced
RECURSIVE Replace(_, _, _)
Replace(t, pat, new) ==
    IF Len(t) < Len(pat) THEN t
    ELSE IF StartsWith(t, pat) THEN new \o Replace(Drop(t, Len(pat)), pat, new)
    ELSE <<Head(t)>> \o Replace(Tail(t), pat, new)

Whitespace == {" "}

\* str::trim: leading and trailing whitespace removed
RECURSIVE TrimStart(_)
TrimStart(s) ==
    IF s # <<>> /\ Head(s) \in Whitespace THEN TrimStart(Tail(s)) ELSE s

RECURSIVE TrimEnd(_)
TrimEnd(s) ==
    IF s # <<>> /\ s[Len(s)] \in Whitespace
    THEN TrimEnd(SubSeq(s, 1, Len(s) - 1)) ELSE s

Trim(s) == TrimEnd(TrimStart(s))

\* String::from_utf8_lossy(raw).to_string(): every invalid byte becomes U+FFFD
from_utf8_lossy(bytes) ==
    [i \in 1..Len(bytes) |-> IF bytes[i] = "X" THEN "R" ELSE bytes[i]]

\* String::into_bytes: the UTF-8 bytes of the text (U+FFFD stays "R")
into_bytes(t) == t

-----------------------------------------------------------------------------
(* replace_in_text *)

Patch(o, n) == [original_text |-> o, new_text |-> n]

\* the test of line 79: the patch is skipped
Skipped(r) == r.original_text = <<>> \/ r.original_text = r.new_text

\* a variant of RitStep that counts one hit for a patch, however often it matched
RitStepCountsPatches(st, r) ==
    IF Skipped(r) THEN st
    ELSE IF Matches(st.text, r.original_text) > 0
    THEN [text |-> Replace(st.text, r.original_text, r.new_text),
          count |-> st.count + 1]
    ELSE st

\* one iteration of the for loop over replacements, on the locals (text, count)
RitStep(st, r) ==
    IF Skipped(r) THEN st
    ELSE LET hits == Matches(st.text, r.original_text)
         IN IF hits > 0
            THEN [text |-> Replace(st.text, r.original_text, r.new_text),
                  count |-> st.count + hits]
            ELSE st

RECURSIVE RitLoop(_, _)
RitLoop(st, rs) ==
    IF rs = <<>> THEN st ELSE RitLoop(RitStep(st, Head(rs)), Tail(rs))

\* replace_in_text(raw, replacements) -> (bytes, count)
replace_in_text(bytes, rs) ==
    LET st == RitLoop([text |-> from_utf8_lossy(bytes), count |-> 0], rs)
    IN [bytes |-> into_bytes(st.text), hits |-> st.count]

-----------------------------------------------------------------------------
(* data_url_to_bytes and Document::load_mem *)

\* A data URL is a sequence of tokens: "," is the comma, ";base64" the marker,
\* "PDF" the base64 text of the bytes of the document `source`, "AAAA" the
\* base64 text of bytes that are no PDF, "!" a character outside base64.
Base64Tokens == {"PDF", "AAAA"}

Ok(v) == [ok |-> TRUE, value |-> v]
Fail(msg) == [ok |-> FALSE, error |-> msg]

\* str::find(','): the index of the first comma, 0 for None
FindComma(url) ==
    IF \E i \in 1..Len(url) : url[i] = ","
    THEN CHOOSE i \in 1..Len(url) :
            /\ url[i] = ","
            /\ \A j \in 1..(i - 1) : url[j] # ","
    ELSE 0

\* a variant of data_url_to_bytes without the test for the marker
data_url_to_bytes_unmarked(data_url) ==
    LET comma == FindComma(data_url)
        payload == Drop(data_url, comma)
    IN IF comma = 0
       THEN Fail("Invalid data URL (missing comma separator)")
       ELSE IF \E i \in 1..Len(payload) : payload[i] \notin Base64Tokens
       THEN Fail("Failed to decode base64 data URL")
       ELSE Ok(payload)

data_url_to_bytes(data_url) ==
    LET comma == FindComma(data_url)
        meta == SubSeq(data_url, 1, comma - 1)
        payload == Drop(data_url, comma)
    IN IF comma = 0
       THEN Fail("Invalid data URL (missing comma separator)")
       ELSE IF ~(";base64" \in Range(meta))
       THEN Fail("Only base64 data URLs are supported for native PDF patching")
       ELSE IF \E i \in 1..Len(payload) : payload[i] \notin Base64Tokens
       THEN Fail("Failed to decode base64 data URL")
       ELSE Ok(payload)

\* Document::load_mem(&bytes): the bytes of `source` parse to it, others fail
load_mem(bytes, src) ==
    IF bytes = <<"PDF">> THEN Ok(src) ELSE Fail("Failed to parse PDF")

-----------------------------------------------------------------------------
(* The document: objects by identifier, pages in page order *)

Str(b) == [type |-> "String", bytes |-> b, items |-> <<>>]
Num(n) == [type |-> "Number", bytes |-> <<n>>, items |-> <<>>]
Arr(xs) == [type |-> "Array", bytes |-> <<>>, items |-> xs]

Op(name, xs) == [operator |-> name, operands |-> xs]

PageObject(contents) ==
    [kind |-> "Page", Contents |-> contents, status |-> "ok", ops |-> <<>>,
     filter |-> "none"]

\* a content stream: its bytes decode to ops, or cannot be read ("unreadable")
\* or decoded ("malformed")
StreamObject(st, ops) ==
    [kind |-> "Stream", Contents |-> 0, status |-> st, ops |-> ops,
     filter |-> "none"]

\* a document of Len(streams) pages: page i is object i, its content stream
\* object Len(streams) + i
MkDoc(streams) ==
    LET n == Len(streams)
    IN [objects |-> [i \in 1..(2 * n) |->
                        IF i <= n THEN PageObject(n + i) ELSE streams[i - n]],
        max_id |-> 2 * n,
        pages |-> [i \in 1..n |-> i]]

\* Document::add_object: the object is stored under max_id + 1
add_object(d, obj) ==
    [d EXCEPT !.max_id = d.max_id + 1,
              !.objects = (d.max_id + 1 :> obj) @@ d.objects]

\* Document::compress: every stream is deflated
compress(d) ==
    [d EXCEPT !.objects = [i \in DOMAIN d.objects |->
        IF d.objects[i].kind = "Stream"
        THEN [d.objects[i] EXCEPT !.filter = "FlateDecode"]
        ELSE d.objects[i]]]

-----------------------------------------------------------------------------
(* native_pdf_patch: the scan of one page's operations, lines 137-165 *)

\* lines 140-147 and 152-159: one operand, (operand, hits)
PatchString(x, rs) ==
    IF x.type = "String"
    THEN LET res == replace_in_text(x.bytes, rs)
         IN IF res.hits > 0
            THEN [operand |-> Str(res.bytes), hits |-> res.hits]
            ELSE [operand |-> x, hits |-> 0]
    ELSE [operand |-> x, hits |-> 0]

\* lines 138-164: one operation, (op, hits)
PatchOp(op, rs) ==
    IF op.operator \in {"Tj", "'", "\""}
    THEN IF Len(op.operands) >= 1
         THEN LET p == PatchString(op.operands[1], rs)
              IN [op |-> [op EXCEPT !.operands[1] = p.operand], hits |-> p.hits]
         ELSE [op |-> op, hits |-> 0]
    ELSE IF op.operator = "TJ"
    THEN IF Len(op.operands) >= 1 /\ op.operands[1].type = "Array"
         THEN LET items == op.operands[1].items
                  ps == [i \in 1..Len(items) |-> PatchString(items[i], rs)]
              IN [op |-> [op EXCEPT !.operands[1] =
                            Arr([i \in 1..Len(items) |-> ps[i].operand])],
                  hits |-> SumSeq([i \in 1..Len(items) |-> ps[i].hits])]
         ELSE [op |-> op, hits |-> 0]
    ELSE [op |-> op, hits |-> 0]

\* line 137: all operations of the page, (ops, hits)
PatchOps(ops, rs) ==
    LET ps == [i \in 1..Len(ops) |-> PatchOp(ops[i], rs)]
    IN [ops |-> [i \in 1..Len(ops) |-> ps[i].op],
        hits |-> SumSeq([i \in 1..Len(ops) |-> ps[i].hits])]

\* a variant of ChangedThisPage that re-encodes every page
ChangedAlways(hits) == TRUE

\* line 167: the page is re-encoded when an operand of it was replaced
ChangedThisPage(hits) == hits > 0

\* a variant of InstallContents that never stores the new stream
InstallContentsUnstored(d, page_id, ops) ==
    [d EXCEPT !.objects[page_id].Contents = d.max_id + 1]

\* lines 171-178: the encoded content becomes a new stream object, and the
\* page's Contents entry refers to it
InstallContents(d, page_id, ops) ==
    LET d1 == add_object(d, StreamObject("ok", ops))
    IN [d1 EXCEPT !.objects[page_id].Contents = d1.max_id]

-----------------------------------------------------------------------------
(* Spec: one run of native_pdf_patch(req) *)

NoDoc == MkDoc(<<>>)
NoReq == [source_data_url |-> <<>>, replacements |-> <<>>]
NoResponse == [kind |-> "none"]

None == [some |-> FALSE]
Some(d) == [some |-> TRUE,
            url |-> <<"data:application/pdf", ";base64", ",", "PDF">>,
            document |-> d]

\* Err(message)
Err(msg) == [kind |-> "err", message |-> msg]

\* Ok(NativePdfPatchResponse { .. }); the engine is always the same string
Response(success, n, out, msg) ==
    [kind |-> "ok", success |-> success, engine |-> "lopdf-native-object-patch",
     replaced_count |-> n, output_data_url |-> out, message |-> msg]

\* a variant of Kept without the test against new_text
KeptWithoutEqualityTest(r) == Trim(r.original_text) # <<>>

\* the filter of line 113
Kept(r) == Trim(r.original_text) # <<>> /\ r.original_text # r.new_text

FilterReplacements(rs) == SelectSeq(rs, Kept)

\* the source data URLs a request may carry
GoodUrl == <<"data:application/pdf", ";base64", ",", "PDF">>
BadUrls ==
    { <<"data:application/pdf", ";base64", "PDF">>,
      <<"data:application/pdf", ",", "PDF">>,
      <<"data:application/pdf", ",", ";base64", "PDF">>,
      <<"data:application/pdf", ";base64", ",", "!">>,
      <<"data:application/pdf", ";base64", ",", "AAAA">> }

\* the content streams a page of the source document may have
PageStreams ==
    { StreamObject("ok", <<Op("Tj", <<Str(<<"X", "b">>)>>)>>),
      StreamObject("ok", <<Op("'", <<Str(<<"a", "b">>)>>)>>),
      StreamObject("ok", <<Op("\"", <<Num("1"), Num("2"), Str(<<"a">>)>>)>>),
      StreamObject("ok", <<Op("TJ", <<Arr(<<Str(<<"a">>), Num("-120"),
                                            Str(<<"b", "a">>)>>)>>)>>),
      StreamObject("ok", <<Op("Td", <<Num("1"), Num("2")>>),
                           Op("Tj", <<Str(<<"a", " ", "a">>)>>)>>),
      StreamObject("unreadable", <<>>),
      StreamObject("malformed", <<>>) }

\* the patches a request may carry
RequestPatches ==
    { Patch(<<"a">>, <<"b">>), Patch(<<"R">>, <<"a">>),
      Patch(<<>>, <<"b">>), Patch(<<"b">>, <<"b">>), Patch(<<" ">>, <<"b">>) }

Docs == {MkDoc(ss) : ss \in SeqsUpTo(PageStreams, MaxPages)}

Init ==
    /\ \/ /\ source \in Docs
          /\ \E rs \in SeqsUpTo(RequestPatches, MaxPatches) :
                req = [source_data_url |-> GoodUrl, replacements |-> rs]
       \/ /\ source = NoDoc
          /\ \E u \in BadUrls, rs \in SeqsUpTo(RequestPatches, MaxPatches) :
                req = [source_data_url |-> u, replacements |-> rs]
    /\ pc = "start"
    /\ replacements = <<>>
    /\ doc = NoDoc
    /\ page_no = 0
    /\ replaced_total = 0
    /\ response = NoResponse
    /\ raw = <<>>
    /\ text = <<>>
    /\ count = 0
    /\ r_ix = 0

\* every return drops the local doc
Return(resp) ==
    /\ response' = resp
    /\ doc' = NoDoc
    /\ pc' = "done"

\* lines 110-123
Filter ==
    /\ pc = "start"
    /\ replacements' = FilterReplacements(req.replacements)
    /\ IF replacements' = <<>>
       THEN Return(Response(FALSE, 0, None, "No valid replacements were provided."))
       ELSE /\ pc' = "load"
            /\ UNCHANGED <<doc, response>>
    /\ UNCHANGED <<req, source, page_no, replaced_total, raw, text, count, r_ix>>

\* lines 125-128
Load ==
    /\ pc = "load"
    /\ LET bytes == data_url_to_bytes(req.source_data_url)
           loaded == load_mem(bytes.value, source)
       IN IF ~bytes.ok THEN Return(Err(bytes.error))
          ELSE IF ~loaded.ok THEN Return(Err(loaded.error))
          ELSE /\ doc' = loaded.value
               /\ pc' = "pages"
               /\ UNCHANGED response
    /\ page_no' = 0
    /\ replaced_total' = 0
    /\ UNCHANGED <<req, source, replacements, raw, text, count, r_ix>>

\* what may go wrong with a changed page: Content::encode fails ("encode"),
\* get_object_mut fails ("object"), as_dict_mut fails ("dict")
PageFaults == {"none", "encode", "object", "dict"}

\* lines 130-180: one iteration of the loop over the pages
ProcessPage ==
    /\ pc = "pages"
    /\ page_no < Len(doc.pages)
    /\ LET page_id == doc.pages[page_no + 1]
           stream == doc.objects[doc.objects[page_id].Contents]
           patched == PatchOps(stream.ops, replacements)
           changed_this_page == ChangedThisPage(patched.hits)
       IN IF stream.status = "unreadable"
          THEN /\ Return(Err("Failed to read page content"))
               /\ UNCHANGED <<page_no, replaced_total>>
          ELSE IF stream.status = "malformed"
          THEN /\ Return(Err("Failed to decode page content"))
               /\ UNCHANGED <<page_no, replaced_total>>
          ELSE IF changed_this_page
          THEN \E fault \in PageFaults :
                 /\ replaced_total' = replaced_total + patched.hits
                 /\ IF fault = "encode"
                    THEN /\ Return(Err("Failed to encode patched page content"))
                         /\ UNCHANGED page_no
                    ELSE IF fault = "object"
                    THEN /\ Return(Err("Failed to access page object"))
                         /\ UNCHANGED page_no
                    ELSE IF fault = "dict"
                    THEN /\ Return(Err("Failed to convert page object to dict"))
                         /\ UNCHANGED page_no
                    ELSE /\ doc' = InstallContents(doc, page_id, patched.ops)
                         /\ page_no' = page_no + 1
                         /\ UNCHANGED <<pc, response>>
          ELSE /\ page_no' = page_no + 1
               /\ UNCHANGED <<pc, doc, response, replaced_total>>
    /\ UNCHANGED <<req, source, replacements, raw, text, count, r_ix>>

\* a variant of FinishResult without the test for zero replacements
FinishResultWithoutZeroTest(total, d, save_ok) ==
    IF save_ok
    THEN Response(TRUE, total, Some(compress(d)), "Native object patch completed.")
    ELSE Err("Failed to save patched PDF")

\* a variant of FinishResult that hands out the document when the save failed
FinishResultKeepsDocument(total, d, save_ok) ==
    IF total = 0
    THEN Response(FALSE, 0, None,
                  "No matching text objects were found for replacement.")
    ELSE IF save_ok
    THEN Response(TRUE, total, Some(compress(d)), "Native object patch completed.")
    ELSE Response(FALSE, total, Some(d), "Failed to save patched PDF")

\* lines 182-203: what is returned once every page is done
FinishResult(total, d, save_ok) ==
    IF total = 0
    THEN Response(FALSE, 0, None,
                  "No matching text objects were found for replacement.")
    ELSE IF save_ok
    THEN Response(TRUE, total, Some(compress(d)), "Native object patch completed.")
    ELSE Err("Failed to save patched PDF")

\* lines 182-203.  The save may fail (save_ok).
Finish ==
    /\ pc = "pages"
    /\ page_no = Len(doc.pages)
    /\ \E save_ok \in BOOLEAN : Return(FinishResult(replaced_total, doc, save_ok))
    /\ UNCHANGED <<req, source, replacements, page_no, replaced_total,
                   raw, text, count, r_ix>>

Next == Filter \/ Load \/ ProcessPage \/ Finish

Spec == Init /\ [][Next]_vars

-----------------------------------------------------------------------------
(* SpecText: one call of replace_in_text(raw, replacements) *)

PatchPool == {Patch(o, n) : o \in Originals, n \in News}

InitText ==
    /\ raw \in SeqsUpTo(Bytes, MaxRawLen)
    /\ replacements \in SeqsUpTo(PatchPool, MaxPatches)
    /\ pc = "rit_entry"
    /\ text = <<>>
    /\ count = 0
    /\ r_ix = 0
    /\ req = NoReq
    /\ source = NoDoc
    /\ doc = NoDoc
    /\ page_no = 0
    /\ replaced_total = 0
    /\ response = NoResponse

\* lines 76-77: the locals
RitEnter ==
    /\ pc = "rit_entry"
    /\ text' = from_utf8_lossy(raw)
    /\ count' = 0
    /\ r_ix' = 0
    /\ pc' = "rit_loop"
    /\ UNCHANGED <<req, source, replacements, doc, page_no, replaced_total,
                   response, raw>>

\* lines 78-87: one iteration of the loop
RitIterate ==
    /\ pc = "rit_loop"
    /\ r_ix < Len(replacements)
    /\ LET st == RitStep([text |-> text, count |-> count], replacements[r_ix + 1])
       IN /\ text' = st.text
          /\ count' = st.count
    /\ r_ix' = r_ix + 1
    /\ UNCHANGED <<req, source, pc, replacements, doc, page_no, replaced_total,
                   response, raw>>

\* line 88: the loop is over, (text.into_bytes(), count) is returned
RitReturn ==
    /\ pc = "rit_loop"
    /\ r_ix = Len(replacements)
    /\ text' = into_bytes(text)
    /\ pc' = "rit_done"
    /\ UNCHANGED <<req, source, replacements, doc, page_no, replaced_total,
                   response, raw, count, r_ix>>

NextText == RitEnter \/ RitIterate \/ RitReturn

SpecText == InitText /\ [][NextText]_vars

-----------------------------------------------------------------------------
(* Properties *)

\* the patch invariant of the data model: original_text is not empty and
\* differs from new_text
ValidPatch(r) == r.original_text # <<>> /\ r.original_text # r.new_text

\* a response that is no error, with success=false, replacedCount=0 and no
\* output data URL
IsNoOp(resp) ==
    /\ resp.kind = "ok"
    /\ resp.success = FALSE
    /\ resp.replaced_count = 0
    /\ resp.output_data_url = None

\* the data URL has no "," at all
LacksSeparator(url) == ~("," \in Range(url))

\* the data URL has no ";base64" before its first ","
LacksMarker(url) ==
    ~\E i, j \in 1..Len(url) :
        /\ i < j
        /\ url[i] = ";base64"
        /\ url[j] = ","
        /\ \A k \in 1..(j - 1) : url[k] # ","

MalformedInputMessages ==
    { "Invalid data URL (missing comma separator)",
      "Only base64 data URLs are supported for native PDF patching" }

\* the content stream object of page k of document d
ContentStream(d, k) == d.objects[d.objects[d.pages[k]].Contents]

\* the strings a text-painting operation shows, in order: the operand of Tj
\* and of ', the third operand of " (after its two spacing numbers), and the
\* string entries of the array of TJ
ShowStrings(op) ==
    IF op.operator \in {"Tj", "'"}
    THEN IF Len(op.operands) >= 1 /\ op.operands[1].type = "String"
         THEN <<op.operands[1].bytes>> ELSE <<>>
    ELSE IF op.operator = "\""
    THEN IF Len(op.operands) >= 3 /\ op.operands[3].type = "String"
         THEN <<op.operands[3].bytes>> ELSE <<>>
    ELSE IF op.operator = "TJ"
    THEN IF Len(op.operands) >= 1 /\ op.operands[1].type = "Array"
         THEN LET strings == SelectSeq(op.operands[1].items,
                                       LAMBDA x : x.type = "String")
              IN [j \in 1..Len(strings) |-> strings[j].bytes]
         ELSE <<>>
    ELSE <<>>

\* the strings all operations of page k of document d show, one sequence per
\* operation
PageStrings(d, k) ==
    LET ops == ContentStream(d, k).ops
    IN [i \in 1..Len(ops) |-> ShowStrings(ops[i])]

\* the sum of F(b) over the strings b that page k of document d shows
SumOverStrings(d, k, F(_)) ==
    LET ss == PageStrings(d, k)
    IN SumSeq([i \in 1..Len(ss) |-> SumSeq([j \in 1..Len(ss[i]) |-> F(ss[i][j])])])

\* the hits the scan of page k of the source document makes
PageHits(k) == PatchOps(ContentStream(source, k).ops, replacements).hits

\* every page of the source document can be read and decoded
AllPagesDecode ==
    \A k \in 1..Len(source.pages) : ContentStream(source, k).status = "ok"

\* C2: when every patch of the request has an empty originalText or an
\* originalText equal to its newText, the command returns a non-error
\* response with success=false, replacedCount=0 and no output data URL,
\* whatever the source data URL is.
C2_NoValidPatchIsNoOp ==
    (/\ pc = "done"
     /\ \A i \in 1..Len(req.replacements) : ~ValidPatch(req.replacements[i]))
    => IsNoOp(response)

\* a request of invalid patches only, with a malformed data URL, was answered
C2_Witness ==
    /\ pc = "done"
    /\ req.replacements # <<>>
    /\ \A i \in 1..Len(req.replacements) : ~ValidPatch(req.replacements[i])
    /\ LacksSeparator(req.source_data_url)
    /\ IsNoOp(response)

\* C6: the patch operation is all-or-nothing.  A returned error carries no
\* output; a non-error response carries an output document exactly when
\* success=true, and exactly when replacedCount > 0; the output document
\* holds every page, each fully patched; and a request with a patch to apply
\* whose data URL, document or any page content fails ends in an error.
C6_AllOrNothing ==
    pc = "done" =>
        /\ response.kind \in {"ok", "err"}
        /\ response.kind = "err" => DOMAIN response = {"kind", "message"}
        /\ response.kind = "ok" =>
              /\ response.output_data_url # None <=> response.success
              /\ response.success <=> response.replaced_count > 0
        /\ (response.kind = "ok" /\ response.success) =>
              LET out == response.output_data_url.document
              IN /\ out.pages = source.pages
                 /\ \A k \in 1..Len(out.pages) :
                       /\ out.objects[out.pages[k]].Contents \in DOMAIN out.objects
                       /\ ContentStream(out, k).ops =
                            PatchOps(ContentStream(source, k).ops, replacements).ops
        /\ (/\ \E i \in 1..Len(req.replacements) :
                    /\ Trim(req.replacements[i].original_text) # <<>>
                    /\ req.replacements[i].original_text # req.replacements[i].new_text
            /\ \/ LacksSeparator(req.source_data_url)
               \/ LacksMarker(req.source_data_url)
               \/ \E i \in 1..Len(req.source_data_url) :
                     req.source_data_url[i] \in {"!", "AAAA"}
               \/ \E k \in 1..Len(source.pages) :
                     ContentStream(source, k).status # "ok")
            => response.kind = "err"

\* a page's content could not be decoded after an earlier page had been
\* patched, and the command returned the error
C6_Witness ==
    /\ pc = "done"
    /\ response = Err("Failed to decode page content")
    /\ replaced_total > 0

C1_EveryOccurrenceReplaced ==
    LET p == req.replacements[1]
        Occurrences(b) == Matches(b, p.original_text)
        N == SumSeq([k \in 1..Len(source.pages) |->
                        SumOverStrings(source, k, Occurrences)])
    IN (/\ pc = "done"
        /\ Len(req.replacements) = 1
        /\ ValidPatch(p)
        /\ req.source_data_url = GoodUrl
        /\ AllPagesDecode
        /\ N >= 1
        /\ response.kind = "ok")
       => /\ response.success
          /\ response.replaced_count = N
          /\ LET out == response.output_data_url.document
             IN \A k \in 1..Len(source.pages) :
                  LET before == PageStrings(source, k)
                  IN PageStrings(out, k) =
                       [i \in 1..Len(before) |-> [j \in 1..Len(before[i]) |->
                          Replace(from_utf8_lossy(before[i][j]),
                                  p.original_text, p.new_text)]]

\* no string a show-text operation of the source document shows contains
\* the originalText of a patch of the request (the string read as text)
NoStringContainsAnOriginal ==
    \A k \in 1..Len(source.pages), i \in 1..Len(req.replacements) :
        SumOverStrings(source, k,
           LAMBDA b : IF Contains(from_utf8_lossy(b),
                                  req.replacements[i].original_text)
                      THEN 1 ELSE 0) = 0

\* C3 as stated: for a loadable document and valid patches such that no
\* show-text string of any page contains any patch's originalText, the
\* command returns a non-error response with success=false, replacedCount=0
\* and no output data URL.
C3_NoMatchIsAlwaysNoOp ==
    (/\ pc = "done"
     /\ req.source_data_url = GoodUrl
     /\ \A i \in 1..Len(req.replacements) : ValidPatch(req.replacements[i])
     /\ NoStringContainsAnOriginal)
    => IsNoOp(response)

\* C3, amended: the same, for a loadable document whose pages' content can
\* all be read and decoded.
C3_NoMatchIsNoOp ==
    (/\ pc = "done"
     /\ req.source_data_url = GoodUrl
     /\ AllPagesDecode
     /\ \A i \in 1..Len(req.replacements) : ValidPatch(req.replacements[i])
     /\ NoStringContainsAnOriginal)
    => IsNoOp(response)

\* valid patches met a document with text in which none of them matches, and
\* the command said so
C3_Witness ==
    /\ pc = "done"
    /\ req.source_data_url = GoodUrl
    /\ AllPagesDecode
    /\ req.replacements # <<>>
    /\ \A i \in 1..Len(req.replacements) : ValidPatch(req.replacements[i])
    /\ \E k \in 1..Len(source.pages) :
          SumOverStrings(source, k, LAMBDA b : 1) > 0
    /\ NoStringContainsAnOriginal
    /\ IsNoOp(response)
    /\ response.message = "No matching text objects were found for replacement."

\* C4: patches are applied one after the other, in list order.  With the
\* patches A->B then B->C and a text that contains A, the result is the text
\* with A replaced by B and then B replaced by C: it contains C, it holds no
\* B when B is one character that C does not hold, and the count is the
\* occurrences of A in the text plus the occurrences of B in the text as the
\* first patch left it.
C4_SequentialChain ==
    LET A == replacements[1].original_text
        B == replacements[1].new_text
        C == replacements[2].new_text
        t0 == from_utf8_lossy(raw)
        t1 == Replace(t0, A, B)
    IN (/\ pc = "rit_done"
        /\ Len(replacements) = 2
        /\ replacements[2].original_text = B
        /\ ValidPatch(replacements[1])
        /\ ValidPatch(replacements[2])
        /\ Contains(t0, A))
       => /\ text = Replace(t1, B, C)
          /\ Contains(text, C)
          /\ (Len(B) = 1 /\ ~Contains(C, B)) => ~Contains(text, B)
          /\ count = Matches(t0, A) + Matches(t1, B)
          /\ count >= 2 * Matches(t0, A)

\* a chain A->B, B->C ran on a text with two occurrences of A and one B
C4_Witness ==
    /\ pc = "rit_done"
    /\ Len(replacements) = 2
    /\ replacements[2].original_text = replacements[1].new_text
    /\ ValidPatch(replacements[1])
    /\ ValidPatch(replacements[2])
    /\ Matches(from_utf8_lossy(raw), replacements[1].original_text) = 2
    /\ Contains(raw, replacements[1].new_text)
    /\ count = 5

\* C5: a page on which the scan made no hit keeps its Contents entry and
\* its content stream, and adds nothing to the count: replaced_total is the
\* sum of the hits of the pages done, and in a successful response
\* replacedCount is the sum of the hits of all pages.
C5_UnchangedPagesKeepContents ==
    /\ pc = "pages" =>
          /\ \A k \in 1..Len(doc.pages) :
                (k > page_no \/ PageHits(k) = 0) =>
                    /\ doc.objects[doc.pages[k]] = source.objects[source.pages[k]]
                    /\ ContentStream(doc, k) = ContentStream(source, k)
          /\ replaced_total = SumSeq([k \in 1..page_no |-> PageHits(k)])
    /\ (pc = "done" /\ response.kind = "ok" /\ response.success) =>
          LET out == response.output_data_url.document
          IN /\ \A k \in 1..Len(source.pages) :
                   PageHits(k) = 0 =>
                       out.objects[out.pages[k]] = source.objects[source.pages[k]]
             /\ response.replaced_count =
                   SumSeq([k \in 1..Len(source.pages) |-> PageHits(k)])

\* a two-page document with hits on page 2 only was patched
C5_Witness ==
    /\ pc = "done"
    /\ response.kind = "ok"
    /\ response.success
    /\ Len(source.pages) = 2
    /\ PageHits(1) = 0
    /\ PageHits(2) > 1
    /\ response.replaced_count = PageHits(2)
    /\ LET out == response.output_data_url.document
       IN /\ out.objects[out.pages[1]].Contents = source.objects[source.pages[1]].Contents
          /\ out.objects[out.pages[2]].Contents # source.objects[source.pages[2]].Contents

\* C8: a patch is discarded exactly when its originalText is empty or equals
\* its newText: the filtered list is the list of the valid patches of the
\* request, and the filter of the request and the test of the engine
\* discard the same patches.
C8_ExactlyInvalidPatchesDiscarded ==
    pc # "start" =>
        /\ replacements = SelectSeq(req.replacements, ValidPatch)
        /\ \A i \in 1..Len(req.replacements) :
              Kept(req.replacements[i]) <=> ~Skipped(req.replacements[i])

\* what replace_in_text leaves of the bytes b in the operand
Patched(b) ==
    LET res == replace_in_text(b, replacements)
    IN IF res.hits > 0 THEN res.bytes ELSE b

\* C9: on every page done, every string a text-painting operation shows (Tj,
\* ', " and TJ) went through the replacement engine, and its hits are
\* counted.
C9_EveryShowStringPatched ==
    pc = "pages" =>
        /\ \A k \in 1..page_no :
              LET before == PageStrings(source, k)
              IN PageStrings(doc, k) =
                   [i \in 1..Len(before) |-> [j \in 1..Len(before[i]) |->
                      Patched(before[i][j])]]
        /\ replaced_total =
              SumSeq([k \in 1..page_no |->
                 SumOverStrings(source, k,
                    LAMBDA b : replace_in_text(b, replacements).hits)])

\* the pages whose Contents entry is not the one of the source document
ChangedPages == {k \in 1..Len(doc.pages) :
    doc.objects[doc.pages[k]].Contents # source.objects[source.pages[k]].Contents}

\* C10: after any number of pages done, the Contents entry of every page is
\* an identifier of the mapping; that of a changed page is a stream stored
\* under an identifier the source document did not have, its own; every
\* object of the source document is still there, the content streams as
\* they were; a page with a hit is a changed page; and the mapping has one
\* object more per changed page.
C10_ObjectMappingConsistent ==
    pc = "pages" =>
        /\ doc.pages = source.pages
        /\ \A k \in 1..Len(doc.pages) :
              doc.objects[doc.pages[k]].Contents \in DOMAIN doc.objects
        /\ \A k \in ChangedPages :
              /\ k <= page_no
              /\ doc.objects[doc.pages[k]].Contents \notin DOMAIN source.objects
              /\ ContentStream(doc, k).kind = "Stream"
              /\ \A m \in ChangedPages :
                    doc.objects[doc.pages[m]].Contents =
                        doc.objects[doc.pages[k]].Contents => m = k
        /\ \A k \in 1..page_no : PageHits(k) > 0 => k \in ChangedPages
        /\ \A id \in DOMAIN source.objects :
              /\ id \in DOMAIN doc.objects
              /\ doc.objects[id].kind = source.objects[id].kind
              /\ source.objects[id].kind = "Stream" =>
                    doc.objects[id] = source.objects[id]
        /\ Cardinality(DOMAIN doc.objects) =
              Cardinality(DOMAIN source.objects) + Cardinality(ChangedPages)

\* both pages of a two-page document were changed
C10_Witness ==
    /\ pc = "pages"
    /\ page_no = 2
    /\ Cardinality(ChangedPages) = 2
    /\ Cardinality(DOMAIN doc.objects) = 6

====
